---- MODULE Spec2Model ----
(***************************************************************************)
(* A model of the book-library scripts: the two parsers (parse_books.py,   *)
(* parse_preparsed.py) and the enrichment script (fetch_covers.py).        *)
(*                                                                         *)
(* A Python str is a sequence of characters; a character is a one-letter   *)
(* string, or "U+XXXX" for a code point outside ASCII.  The source files   *)
(* hold their non-ASCII literals exactly as the code points named here.    *)
(* None is the one-element sequence <<"None">> for str-valued and          *)
(* list-valued places and NoneInt for int-valued ones.                     *)
(***************************************************************************)
EXTENDS Integers, Sequences, FiniteSets, TLC

VARIABLES
    call,             \* the call being served: [fn |-> name, ...arguments]
    ret,              \* what that call returned
    pc,               \* position of parse_preparsed.main
    fetch_missing,    \* main's flag, from the chosen mode
    raw_books,        \* main: the entries loaded from the preparsed files
    responses,        \* main: what the lookup service answers, per entry
    processed_books,  \* main: the list the loop appends to
    database          \* books_database.json as main writes it

vars == <<call, ret, pc, fetch_missing, raw_books, responses,
          processed_books, database>>

-----------------------------------------------------------------------------
(* Bounds of the model.                                                    *)

\* how many vocabulary fragments an input string is built from
MaxFrags == 3
\* how many distinct non-empty opaque texts (descriptions, ...) exist
MaxText == 1
\* how many entries a batch holds
MaxBooks == 3

-----------------------------------------------------------------------------
(* Python values.                                                          *)

None == <<"None">>
NoneInt == 0 - 1

TruthyStr(s) == s # None /\ s # <<>>
TruthyInt(n) == n # NoneInt /\ n # 0
TruthyList(l) == l # None /\ l # <<>>

-----------------------------------------------------------------------------
(* Characters.                                                             *)

UpperSeq == <<"A","B","C","D","E","F","G","H","I","J","K","L","M",
              "N","O","P","Q","R","S","T","U","V","W","X","Y","Z">>
LowerSeq == <<"a","b","c","d","e","f","g","h","i","j","k","l","m",
              "n","o","p","q","r","s","t","u","v","w","x","y","z">>
AsciiUpper == {UpperSeq[k] : k \in 1..26}
AsciiLower == {LowerSeq[k] : k \in 1..26}
Digits == {"0","1","2","3","4","5","6","7","8","9"}
DigitSeq == <<"0","1","2","3","4","5","6","7","8","9">>
Space == {" "}

\* letters outside ASCII that occur in the sources: (upper, lower) pairs
\* and caseless ones.  U+00FC u-umlaut, U+00F2, U+00EA, U+00EB, U+00E7,
\* U+00D1/U+00F1 N-tilde, U+00FA, U+00BA ordinal, U+00C3/U+00E3 A-tilde,
\* U+00D0/U+00F0 eth, U+0178/U+00FF Y-diaeresis, U+00BC one quarter (numeric).
OtherWordChars == {"U+00FC","U+00F2","U+00EA","U+00EB","U+00E7","U+00D1",
                   "U+00F1","U+00FA","U+00BA","U+00C3","U+00E3","U+00F0",
                   "U+00D0","U+0178","U+00FF","U+00BC"}

\* \w of the re module on str patterns
WordChars == AsciiUpper \cup AsciiLower \cup Digits \cup {"_"} \cup OtherWordChars

LowerOf == [c \in AsciiUpper |-> LowerSeq[CHOOSE k \in 1..26 : UpperSeq[k] = c]]
UpperOf == [c \in AsciiLower |-> UpperSeq[CHOOSE k \in 1..26 : LowerSeq[k] = c]]

\* str.lower on one character
Lower(c) ==
    IF c \in AsciiUpper THEN LowerOf[c]
    ELSE IF c = "U+00D1" THEN "U+00F1"
    ELSE IF c = "U+00C3" THEN "U+00E3"
    ELSE IF c = "U+0178" THEN "U+00FF"
    ELSE IF c = "U+00D0" THEN "U+00F0"
    ELSE c

Upper(c) ==
    IF c \in AsciiLower THEN UpperOf[c]
    ELSE IF c = "U+00F1" THEN "U+00D1"
    ELSE IF c = "U+00E3" THEN "U+00C3"
    ELSE IF c = "U+00FF" THEN "U+0178"
    ELSE IF c = "U+00F0" THEN "U+00D0"
    ELSE c

ToLower(s) == [k \in 1..Len(s) |-> Lower(s[k])]

DigitVal(c) == (CHOOSE k \in 1..10 : DigitSeq[k] = c) - 1

RECURSIVE ToInt(_)
\* int() of a string of digits
ToInt(s) ==
    IF s = <<>> THEN 0
    ELSE 10 * ToInt(SubSeq(s, 1, Len(s) - 1)) + DigitVal(s[Len(s)])

RECURSIVE LStrip(_)
LStrip(s) == IF s # <<>> /\ Head(s) \in Space THEN LStrip(Tail(s)) ELSE s

RECURSIVE RStripSet(_, _)
RStripSet(s, S) ==
    IF s # <<>> /\ s[Len(s)] \in S THEN RStripSet(SubSeq(s, 1, Len(s) - 1), S)
    ELSE s

\* str.strip()
Strip(s) == RStripSet(LStrip(s), Space)

\* the substring test  sub in s
Contains(s, sub) ==
    \E p \in 1..(Len(s) - Len(sub) + 1) : SubSeq(s, p, p + Len(sub) - 1) = sub

RECURSIVE SplitCount(_, _)
\* len(s.split()): the number of maximal runs of non-whitespace
SplitCount(s, inWord) ==
    IF s = <<>> THEN 0
    ELSE IF Head(s) \in Space THEN SplitCount(Tail(s), FALSE)
    ELSE (IF inWord THEN 0 ELSE 1) + SplitCount(Tail(s), TRUE)

-----------------------------------------------------------------------------
(* Regular expressions, as the re module matches them.                     *)
(* A pattern is a list of alternatives tried in order at each position; an *)
(* alternative is a sequence of items; an item is a quantified character   *)
(* class, a word boundary or the end of the string.  Matching backtracks   *)
(* over the repetition counts in the order re does (greedy: longest first; *)
(* lazy: shortest first).  A match is the sequence of positions reached    *)
(* after each item, so a group is the text between two of them.            *)

NoMatch == <<0>>

Rep(S, lo, hi) == [k |-> "set", s |-> S, neg |-> FALSE, lo |-> lo, hi |-> hi,
                   inf |-> FALSE, lazy |-> FALSE]
One(S) == Rep(S, 1, 1)
Opt(S) == Rep(S, 0, 1)
Star(S) == [k |-> "set", s |-> S, neg |-> FALSE, lo |-> 0, hi |-> 0,
            inf |-> TRUE, lazy |-> FALSE]
Plus(S) == [k |-> "set", s |-> S, neg |-> FALSE, lo |-> 1, hi |-> 0,
            inf |-> TRUE, lazy |-> FALSE]
NotPlus(S) == [k |-> "set", s |-> S, neg |-> TRUE, lo |-> 1, hi |-> 0,
               inf |-> TRUE, lazy |-> FALSE]
AnyStar == [k |-> "set", s |-> {}, neg |-> TRUE, lo |-> 0, hi |-> 0,
            inf |-> TRUE, lazy |-> FALSE]
AnyPlusLazy == [k |-> "set", s |-> {}, neg |-> TRUE, lo |-> 1, hi |-> 0,
                inf |-> TRUE, lazy |-> TRUE]
WB == [k |-> "wb"]
EOS == [k |-> "eos"]

\* a literal, case-sensitive and under re.IGNORECASE
Lit(str) == [k \in 1..Len(str) |-> One({str[k]})]
ILit(str) == [k \in 1..Len(str) |-> One({Lower(str[k]), Upper(str[k])})]

Hit(it, c) == IF it.neg THEN c \notin it.s ELSE c \in it.s

RECURSIVE RunLen(_, _, _, _)
\* how many characters from pos on the item can take, n taken so far
RunLen(it, s, pos, n) ==
    IF pos > Len(s) \/ (~it.inf /\ n >= it.hi) \/ ~Hit(it, s[pos]) THEN n
    ELSE RunLen(it, s, pos + 1, n + 1)

IsWordAt(s, p) == p >= 1 /\ p <= Len(s) /\ s[p] \in WordChars
\* \b at pos: between s[pos-1] and s[pos]
IsBoundary(s, pos) == IsWordAt(s, pos - 1) # IsWordAt(s, pos)

RECURSIVE MatchItems(_, _, _, _)
RECURSIVE TryCounts(_, _, _, _, _, _)

\* the items k.. of alternative pat against s from pos
MatchItems(pat, s, k, pos) ==
    IF k > Len(pat) THEN <<>>
    ELSE LET it == pat[k] IN
         IF it.k = "wb" \/ it.k = "eos"
         THEN LET holds == IF it.k = "wb" THEN IsBoundary(s, pos)
                           ELSE pos = Len(s) + 1
                  rest == MatchItems(pat, s, k + 1, pos)
              IN IF holds /\ rest # NoMatch THEN <<pos>> \o rest ELSE NoMatch
         ELSE LET run == RunLen(it, s, pos, 0)
              IN IF run < it.lo THEN NoMatch
                 ELSE TryCounts(pat, s, k, pos, IF it.lazy THEN it.lo ELSE run, run)

\* item k takes n characters; on failure of the rest, the next count
TryCounts(pat, s, k, pos, n, run) ==
    LET rest == MatchItems(pat, s, k + 1, pos + n)
    IN IF rest # NoMatch THEN <<pos + n>> \o rest
       ELSE IF pat[k].lazy
            THEN (IF n < run THEN TryCounts(pat, s, k, pos, n + 1, run) ELSE NoMatch)
            ELSE (IF n > pat[k].lo THEN TryCounts(pat, s, k, pos, n - 1, run) ELSE NoMatch)

NoHit == [ok |-> FALSE, start |-> 0, alt |-> 0, ends |-> NoMatch]

RECURSIVE MatchAlts(_, _, _, _)
\* re.match at pos: the first alternative, from a on, that matches there
MatchAlts(alts, s, pos, a) ==
    IF a > Len(alts) THEN NoHit
    ELSE LET e == MatchItems(alts[a], s, 1, pos)
         IN IF e # NoMatch THEN [ok |-> TRUE, start |-> pos, alt |-> a, ends |-> e]
            ELSE MatchAlts(alts, s, pos, a + 1)

ReMatch(alts, s) == MatchAlts(alts, s, 1, 1)

RECURSIVE SearchFrom(_, _, _)
\* re.search: the leftmost position with a match
SearchFrom(alts, s, pos) ==
    IF pos > Len(s) + 1 THEN NoHit
    ELSE LET m == MatchAlts(alts, s, pos, 1)
         IN IF m.ok THEN m ELSE SearchFrom(alts, s, pos + 1)

ReSearch(alts, s) == SearchFrom(alts, s, 1)

\* where the match ends, and the text between item boundaries a and b
\* (boundary 0 is the start of the match)
MatchEnd(m) == IF m.ends = <<>> THEN m.start ELSE m.ends[Len(m.ends)]
Bound(m, b) == IF b = 0 THEN m.start ELSE m.ends[b]
Group(m, s, a, b) == SubSeq(s, Bound(m, a), Bound(m, b) - 1)

RECURSIVE SubFrom(_, _, _)
\* re.sub(pattern, '', s): every non-overlapping match removed; the
\* patterns used never match the empty string
SubFrom(alts, s, pos) ==
    IF pos > Len(s) THEN <<>>
    ELSE LET m == MatchAlts(alts, s, pos, 1)
         IN IF m.ok /\ MatchEnd(m) > pos THEN SubFrom(alts, s, MatchEnd(m))
            ELSE <<s[pos]>> \o SubFrom(alts, s, pos + 1)

ReSub(alts, s) == SubFrom(alts, s, 1)

-----------------------------------------------------------------------------
(* parse_preparsed.py: the Date Normalizer.                                *)

\* months_map, in the dict's insertion order
months_map == <<
    <<<<"j","a","n">>, 1>>, <<<<"j","a","n","u","a","r">>, 1>>,
    <<<<"f","e","b">>, 2>>, <<<<"f","e","b","r","u","a","r">>, 2>>,
    <<<<"m","U+221A","U+00A7","r">>, 3>>, <<<<"m","U+221A","U+00A7","r","z">>, 3>>, <<<<"m","a","r">>, 3>>,
    <<<<"a","p","r">>, 4>>, <<<<"a","p","r","i","l">>, 4>>,
    <<<<"m","a","i">>, 5>>,
    <<<<"j","u","n">>, 6>>, <<<<"j","u","n","i">>, 6>>,
    <<<<"j","u","l">>, 7>>, <<<<"j","u","l","i">>, 7>>,
    <<<<"a","u","g">>, 8>>, <<<<"a","u","g","u","s","t">>, 8>>,
    <<<<"s","e","p">>, 9>>, <<<<"s","e","p","t">>, 9>>, <<<<"s","e","p","t","e","m","b","e","r">>, 9>>,
    <<<<"o","k","t">>, 10>>, <<<<"o","k","t","o","b","e","r">>, 10>>,
    <<<<"n","o","v">>, 11>>, <<<<"n","o","v","e","m","b","e","r">>, 11>>,
    <<<<"d","e","z">>, 12>>, <<<<"d","e","z","e","m","b","e","r">>, 12>>
>>

RECURSIVE FindMonth(_, _, _)
\* the first entry of the table, from k on, whose name occurs in text
FindMonth(table, text, k) ==
    IF k > Len(table) THEN NoneInt
    ELSE IF Contains(text, table[k][1]) THEN table[k][2]
    ELSE FindMonth(table, text, k + 1)

\* (\d{4})-(\d{2})-\d{2}
IsoPattern == << <<Rep(Digits, 4, 4), One({"-"}), Rep(Digits, 2, 2),
                   One({"-"}), Rep(Digits, 2, 2)>> >>

\* \b(20\d{2}|\d{2})\b
YearPattern == << <<WB, One({"2"}), One({"0"}), Rep(Digits, 2, 2), WB>>,
                  <<WB, Rep(Digits, 2, 2), WB>> >>

\* group 1 of a year pattern: what lies between the two word boundaries
YearGroup(m, s) == Group(m, s, 1, Len(m.ends) - 1)

\* 2-digit to 4-digit
ExpandYear(y) == IF y < 100 THEN (IF y < 50 THEN 2000 + y ELSE 1900 + y) ELSE y

\* the year the search finds, when it finds one
YearOf(m, s) == IF m.ok THEN ExpandYear(ToInt(YearGroup(m, s))) ELSE NoneInt

\* the month scan; it runs whether or not a year was found
MonthScan(date_lower) == FindMonth(months_map, date_lower, 1)

\* parse_date(date_str) -> <<year, month>>
parse_date(date_str) ==
    IF ~TruthyStr(date_str) THEN <<NoneInt, NoneInt>>
    ELSE LET date_lower == RStripSet(Strip(ToLower(date_str)), {"."})
             iso_match == ReMatch(IsoPattern, date_lower)
         IN IF iso_match.ok
            THEN <<ToInt(Group(iso_match, date_lower, 0, 1)),
                   ToInt(Group(iso_match, date_lower, 2, 3))>>
            ELSE <<YearOf(ReSearch(YearPattern, date_lower), date_lower),
                   MonthScan(date_lower)>>

-----------------------------------------------------------------------------
(* parse_preparsed.py: the Series Extractor.                               *)

\* series_patterns[n]; ic: compiled with re.IGNORECASE
SeriesPattern(n, ic) ==
    LET L(str) == IF ic THEN ILit(str) ELSE Lit(str) IN
    CASE n = 1 -> Lit(<<"(">>) \o L(<<"B","a","n","d">>) \o <<Plus(Space), Plus(Digits)>> \o Lit(<<")">>)
      [] n = 2 -> Lit(<<"(">>) \o <<Plus(Digits), One({"."}), Star(Space)>> \o L(<<"F","a","l","l">>) \o Lit(<<")">>)
      [] n = 3 -> Lit(<<"(">>) \o L(<<"F","a","l","l">>) \o <<Plus(Space), Plus(Digits)>> \o Lit(<<")">>)
      [] n = 4 -> <<Plus(Space)>> \o Lit(<<"(">>) \o <<Plus(Digits), One({"."})>> \o Lit(<<")">>)

\* group 1 of series_patterns[n]
SeriesVolume(n, m, s) ==
    CASE n = 1 -> ToInt(Group(m, s, 6, 7))
      [] n = 2 -> ToInt(Group(m, s, 1, 2))
      [] n = 3 -> ToInt(Group(m, s, 6, 7))
      [] n = 4 -> ToInt(Group(m, s, 2, 3))

\* clean_title = re.sub(pattern, '', title).strip(): no flags given
CleanTitle(n, title) == Strip(ReSub(<<SeriesPattern(n, FALSE)>>, title))

RECURSIVE SeriesLoop(_, _, _)
\* the loop over the first `last` patterns, from pattern n on
SeriesLoop(title, n, last) ==
    IF n > last THEN <<title, NoneInt>>
    ELSE LET match == ReSearch(<<SeriesPattern(n, TRUE)>>, title)
         IN IF match.ok THEN <<CleanTitle(n, title), SeriesVolume(n, match, title)>>
            ELSE SeriesLoop(title, n + 1, last)

\* extract_series_info(title) -> <<clean_title, volume>>
extract_series_info(title) == SeriesLoop(title, 1, 3)

-----------------------------------------------------------------------------
(* parse_preparsed.py: the Note/Location Classifier.                       *)

known_locations == <<
    <<"B","e","r","g","i","s","c","h"," ","G","l","a","d","b","a","c","h">>, <<"S","y","d","n","e","y">>, <<"E","n","g","l","a","n","d">>, <<"F","r","a","n","k","r","e","i","c","h">>, <<"B","e","r","l","i","n">>,
    <<"A","u","t","o","r","e","n","t","e","a","m">>, <<"S","c","h","w","e","d","e","n">>, <<"G","U+221A","U+2202","t","e","b","o","r","g">>,
    <<"B","a","s","k","e","n","l","a","n","d"," ","U+201A","U+00C4","U+00EC"," ","S","p","a","n","i","e","n">>,
    <<"B","o","n","n","-","A","r","z","t"," ","u","n","d"," ","W","i","s","s","e","n","s","c","h","a","f","t","l","e","r">>, <<"B","e","l","f","a","s","t">>, <<"K","U+221A","U+2202","l","n">>
>>

\* the pattern of line 110 without its second alternative: \bFall\b
FallBandPattern_FallOnly == << <<WB>> \o ILit(<<"F","a","l","l">>) \o <<WB>> >>

\* \b(Fall|Band)\b with re.IGNORECASE
FallBandPattern == << <<WB>> \o ILit(<<"F","a","l","l">>) \o <<WB>>,
                      <<WB>> \o ILit(<<"B","a","n","d">>) \o <<WB>> >>

\* the characters of the class that opens the pattern of line 126
EmojiClass == {"U+F8FF", "U+00FC", "U+00F2", "U+00EA", "U+00EB", "U+00E7"}

\* [..]|\d+\.|zum |Esther
NotePhrasePattern == << <<One(EmojiClass)>>,
                        <<Plus(Digits), One({"."})>>,
                        Lit(<<"z","u","m"," ">>),
                        Lit(<<"E","s","t","h","e","r">>) >>

\* the class of line 130: A-Z, a-z, the listed code points, \s and -
LocationClass == AsciiUpper \cup AsciiLower \cup Space \cup {"-"} \cup
    {"U+221A", "U+00A7", "U+2202", "U+00BA", "U+00D1", "U+00F1", "U+00FA", "U+00FC"}

\* ^[...]{2,30}$
LocationShapePattern == << <<Rep(LocationClass, 2, 30), EOS>> >>

\* the allow-list entry that notes equals, ignoring case (0: none)
KnownLocationIndex(notes) ==
    IF \E k \in 1..Len(known_locations) : ToLower(notes) = ToLower(known_locations[k])
    THEN CHOOSE k \in 1..Len(known_locations) :
            /\ ToLower(notes) = ToLower(known_locations[k])
            /\ \A j \in 1..(k - 1) : ToLower(notes) # ToLower(known_locations[j])
    ELSE 0

\* what the classifier returns when no earlier rule applied
ClassifyFallback(notes) == <<None, notes>>

\* ClassifyKnown leaving the text in the notes as well
ClassifyKnown_KeepNotes(location, notes) == <<location, notes>>

\* what the classifier returns for an allow-list entry
ClassifyKnown(location, notes) == <<location, None>>

\* extract_location_from_notes(notes) -> <<location, remaining_notes>>
extract_location_from_notes(notes0) ==
    IF ~TruthyStr(notes0) THEN <<None, None>>
    ELSE LET notes == Strip(notes0) IN
         IF ReSearch(FallBandPattern, notes).ok THEN <<None, notes>>
         ELSE IF KnownLocationIndex(notes) # 0
              THEN ClassifyKnown(known_locations[KnownLocationIndex(notes)], notes)
         ELSE IF ReSearch(NotePhrasePattern, notes).ok THEN <<None, notes>>
         ELSE IF ReMatch(LocationShapePattern, notes).ok /\ SplitCount(notes, FALSE) <= 4
              THEN <<notes, None>>
         ELSE ClassifyFallback(notes)


-----------------------------------------------------------------------------
(* parse_books.py: its own Date Normalizer and Series Extractor.           *)

\* months, in the dict's insertion order
pb_months == <<
    <<<<"j","a","n">>, 1>>, <<<<"j","a","n","u","a","r">>, 1>>, <<<<"f","e","b">>, 2>>, <<<<"f","e","b","r","u","a","r">>, 2>>,
    <<<<"m","U+00C3","U+00A4","r","z">>, 3>>, <<<<"m","a","r">>, 3>>,
    <<<<"a","p","r","i","l">>, 4>>, <<<<"a","p","r">>, 4>>, <<<<"m","a","i">>, 5>>, <<<<"j","u","n","i">>, 6>>,
    <<<<"j","u","l","i">>, 7>>, <<<<"a","u","g">>, 8>>,
    <<<<"a","u","g","u","s","t">>, 8>>, <<<<"s","e","p">>, 9>>, <<<<"s","e","p","t">>, 9>>, <<<<"s","e","p","t","e","m","b","e","r">>, 9>>,
    <<<<"o","k","t">>, 10>>,
    <<<<"o","k","t","o","b","e","r">>, 10>>, <<<<"n","o","v">>, 11>>, <<<<"n","o","v","e","m","b","e","r">>, 11>>, <<<<"d","e","z">>, 12>>,
    <<<<"d","e","z","e","m","b","e","r">>, 12>>
>>

\* \b(20\d{2}|0[6-9]|1[0-9]|2[0-5])\b
pb_YearPattern == <<
    <<WB, One({"2"}), One({"0"}), Rep(Digits, 2, 2), WB>>,
    <<WB, One({"0"}), One({"6","7","8","9"}), WB>>,
    <<WB, One({"1"}), One(Digits), WB>>,
    <<WB, One({"2"}), One({"0","1","2","3","4","5"}), WB>> >>

\* an Optional[Dict]: <<>> is None, <<d>> is the dict d
NoneDict == <<>>

\* parse_date(text) of parse_books.py -> None or {'year', 'month'}
pb_parse_date(text) ==
    IF ~TruthyStr(text) THEN NoneDict
    ELSE LET text_lower == Strip(ToLower(text))
             year_match == ReSearch(pb_YearPattern, text_lower)
         IN IF year_match.ok
            THEN << [year |-> ExpandYear(ToInt(YearGroup(year_match, text_lower))),
                     month |-> FindMonth(pb_months, text_lower, 1)] >>
            ELSE NoneDict

\* extract_series_info(title) of parse_books.py: a fourth pattern, (N.)
pb_extract_series_info(title) == SeriesLoop(title, 1, 4)

-----------------------------------------------------------------------------
(* parse_books.py: parse_book_line.                                        *)

\* ^\s*Word\s+
SkipWord(word) == <<Star(Space)>> \o Lit(word) \o <<Plus(Space)>>

skip_patterns == <<
    Lit(<<">",">">>),
    SkipWord(<<"A","l","s">>), SkipWord(<<"E","i","n">>), SkipWord(<<"I","n">>), SkipWord(<<"S","i","e">>),
    SkipWord(<<"E","r">>),
    <<Star(Space)>> \o Lit(<<"D","i","e">>) \o
        <<Plus(Space), One(AsciiUpper), Plus(AsciiLower), Plus(Space)>>,
    SkipWord(<<"V","o","m">>), SkipWord(<<"M","i","t">>), SkipWord(<<"F","U+00C3","U+00BC","r">>), SkipWord(<<"A","u","f">>),
    SkipWord(<<"S","e","i","t">>), SkipWord(<<"N","a","c","h">>), SkipWord(<<"W","U+00C3","U+00A4","h","r","e","n","d">>),
    <<Star(Space), One(AsciiUpper), Plus(AsciiLower), Opt({","}), Plus(Space)>>
        \o Lit(<<"i","m">>) \o <<Plus(Space)>>
>>

\* some skip pattern matches at the start of the line
SkipLine(line) == ReMatch(skip_patterns, line).ok

\* the minimum length of a book entry
MinLineLen == 15

\* ^(.+?)\s*\(([^)]+)\)$
AuthorLocationPattern ==
    << <<AnyPlusLazy, Star(Space), One({"("}), NotPlus({")"}), One({")"}), EOS>> >>

\* <<author, location>> from the text before the colon
SplitAuthor(author_part) ==
    LET m == ReMatch(AuthorLocationPattern, author_part)
    IN IF m.ok THEN <<Strip(Group(m, author_part, 0, 1)),
                      Strip(Group(m, author_part, 3, 4))>>
       ELSE <<author_part, None>>

\* a pattern for the parentheticals that takes only those holding a digit-free text: \(([^)0-9]+)\)
ParenPattern_NoDigits == << <<One({"("}), NotPlus({")"} \cup Digits), One({")"})>> >>

\* \(([^)]+)\)
ParenPattern == << <<One({"("}), NotPlus({")"}), One({")"})>> >>

RECURSIVE FindAllParens(_, _)
\* re.findall of ParenPattern: group 1 of each match, left to right
FindAllParens(s, pos) ==
    IF pos > Len(s) THEN <<>>
    ELSE LET m == MatchAlts(ParenPattern, s, pos, 1)
         IN IF m.ok THEN <<Group(m, s, 1, 2)>> \o FindAllParens(s, MatchEnd(m))
            ELSE FindAllParens(s, pos + 1)

\* note_patterns[n], each under re.IGNORECASE
NotePattern(n) ==
    LET tail == <<AnyStar, EOS>> IN
    CASE n = 1 -> <<Plus(Space)>> \o ILit(<<"U+00F0","U+0178","U+02DC">>) \o tail
      [] n = 2 -> <<Plus(Space)>> \o ILit(<<"T","O","P","!">>) \o tail
      [] n = 3 -> <<Plus(Space)>> \o ILit(<<"s","u","p","e","r","!">>) \o tail
      [] n = 4 -> <<Plus(Space)>> \o ILit(<<"n","e","e","!">>) \o tail
      [] n = 5 -> <<Plus(Space)>> \o ILit(<<"z","u","m"," ","h","e","u","l","e","n">>) \o tail
      [] n = 6 -> <<Plus(Space), One({"-"}), NotPlus({"-"}), One({"-"})>> \o tail
      [] n = 7 -> <<Plus(Space)>> \o ILit(<<"s","e","l","b","s","t">>) \o tail

RECURSIVE SplitNotes(_, _)
\* <<title, notes>>: the first note pattern, from n on, found in the text
SplitNotes(title_and_notes, n) ==
    IF n > 7 THEN <<title_and_notes, None>>
    ELSE LET match == ReSearch(<<NotePattern(n)>>, title_and_notes)
         IN IF match.ok
            THEN <<Strip(ReSub(<<NotePattern(n)>>, title_and_notes)),
                   Strip(Group(match, title_and_notes, 0, Len(match.ends)))>>
            ELSE SplitNotes(title_and_notes, n + 1)

\* DateFromParens without its break: the last parenthetical that parses
DateFromParens_LastWins(parentheticals, k) ==
    LET hits == {j \in k..Len(parentheticals) :
                    pb_parse_date(parentheticals[j]) # NoneDict}
    IN IF hits = {} THEN NoneDict
       ELSE pb_parse_date(parentheticals[CHOOSE j \in hits : \A i \in hits : i <= j])

RECURSIVE DateFromParens(_, _)
\* the loop over the parentheticals: the first, from k on, that parses
DateFromParens(parentheticals, k) ==
    IF k > Len(parentheticals) THEN NoneDict
    ELSE LET date_info == pb_parse_date(parentheticals[k])
         IN IF date_info # NoneDict THEN date_info
            ELSE DateFromParens(parentheticals, k + 1)

\* the date of a line: from the parentheticals, else from the notes
ResolveDate(parentheticals, notes) ==
    LET date_info == DateFromParens(parentheticals, 1)
    IN IF date_info = NoneDict /\ TruthyStr(notes) THEN pb_parse_date(notes)
       ELSE date_info

\* the index of the first colon of line (0: none)
FirstColon(line) ==
    IF \E p \in 1..Len(line) : line[p] = ":"
    THEN CHOOSE p \in 1..Len(line) :
            line[p] = ":" /\ \A q \in 1..(p - 1) : line[q] # ":"
    ELSE 0

\* the record built from the split line, or None when it has no title
AssembleBook(author, location, title, series_volume, date_info, notes) ==
    LET book == [author |-> author,
                 title |-> Strip(title),
                 location |-> location,
                 series_volume |-> series_volume,
                 year |-> IF date_info # NoneDict THEN date_info[1].year ELSE NoneInt,
                 month |-> IF date_info # NoneDict THEN date_info[1].month ELSE NoneInt,
                 notes |-> notes]
    IN IF book.title = <<>> \/ Len(book.title) < 2 THEN NoneDict ELSE <<book>>

\* parse_book_line(line) -> None or the book
parse_book_line(line0) ==
    LET line == Strip(line0) IN
    IF line = <<>> THEN NoneDict
    ELSE IF SkipLine(line) THEN NoneDict
    ELSE IF Len(line) < MinLineLen THEN NoneDict
    ELSE IF FirstColon(line) = 0 THEN NoneDict
    ELSE LET colon == FirstColon(line)
             author_part == Strip(SubSeq(line, 1, colon - 1))
             rest == Strip(SubSeq(line, colon + 1, Len(line)))
             al == SplitAuthor(author_part)
             parentheticals == FindAllParens(rest, 1)
             title_and_notes == Strip(ReSub(ParenPattern, rest))
             tn == SplitNotes(title_and_notes, 1)
             notes == tn[2]
             ts == pb_extract_series_info(tn[1])
             date_info == ResolveDate(parentheticals, notes)
         IN AssembleBook(al[1], al[2], ts[1], ts[2], date_info, notes)

-----------------------------------------------------------------------------
(* The bibliographic lookup: search_google_books, alike in                 *)
(* parse_preparsed.py and fetch_covers.py.                                 *)
(*                                                                         *)
(* What the service does is the argument net:                              *)
(*   [kind |-> "RequestException"]  requests.get or raise_for_status       *)
(*                                  raises (no connection, timeout, 4xx,   *)
(*                                  5xx);                                  *)
(*   [kind |-> "json", items |-> s] the body parsed to a dict; s is        *)
(*                                  data['items'], <<>> when the key is    *)
(*                                  absent or the list empty.              *)
(* An item is [has_id, id, has_volumeInfo, volumeInfo]; the has_ flags say *)
(* whether the key is there.  A call returns [exc, value]: exc names the   *)
(* exception that left the function ("" for none), value is the Optional   *)
(* result.                                                                 *)

RECURSIVE Replace(_, _, _)
\* str.replace(old, new)
Replace(s, old, new) ==
    IF Len(s) < Len(old) THEN s
    ELSE IF SubSeq(s, 1, Len(old)) = old
         THEN new \o Replace(SubSeq(s, Len(old) + 1, Len(s)), old, new)
         ELSE <<Head(s)>> \o Replace(Tail(s), old, new)

RECURSIVE FirstIsbn(_, _)
\* the identifier of the first ISBN_13 or ISBN_10 entry, from k on
FirstIsbn(identifiers, k) ==
    IF k > Len(identifiers) THEN None
    ELSE IF identifiers[k].type \in {"ISBN_13", "ISBN_10"} THEN identifiers[k].identifier
    ELSE FirstIsbn(identifiers, k + 1)

\* the largest image available; a size whose key is absent holds None
PickCover(imageLinks) ==
    IF imageLinks.extraLarge # None THEN imageLinks.extraLarge
    ELSE IF imageLinks.large # None THEN imageLinks.large
    ELSE IF imageLinks.medium # None THEN imageLinks.medium
    ELSE IF imageLinks.thumbnail # None THEN imageLinks.thumbnail
    ELSE None

\* Convert http to https
SecureCover(cover_url) ==
    IF TruthyStr(cover_url) THEN Replace(cover_url, <<"h","t","t","p",":","/","/">>, <<"h","t","t","p","s",":","/","/">>)
    ELSE cover_url

\* the result dict built from items[0]
LookupResult(item) ==
    LET book_info == item.volumeInfo IN
    [google_books_id |-> item.id,
     description |-> book_info.description,
     publisher |-> book_info.publisher,
     published_date |-> book_info.publishedDate,
     page_count |-> book_info.pageCount,
     categories |-> book_info.categories,
     language |-> book_info.language,
     isbn |-> FirstIsbn(book_info.industryIdentifiers, 1),
     cover_url |-> SecureCover(PickCover(book_info.imageLinks))]

Returns(value) == [exc |-> "", value |-> value]
Raises(exc) == [exc |-> exc, value |-> NoneDict]

\* what the except clause of the lookup does with a RequestException
OnRequestException == Returns(NoneDict)

\* search_google_books(title, author), the service answering net
search_google_books(title, author, net) ==
    IF net.kind = "RequestException" THEN OnRequestException
    ELSE IF Len(net.items) > 0
         THEN IF ~net.items[1].has_volumeInfo \/ ~net.items[1].has_id
              THEN Raises("KeyError")
              ELSE Returns(<<LookupResult(net.items[1])>>)
         ELSE Returns(NoneDict)

-----------------------------------------------------------------------------
(* parse_preparsed.py: process_book and its Enrichment Merge.              *)

\* MergeDescription without its test of the current value
MergeDescription_Overwrite(current, found) ==
    IF TruthyStr(found) THEN found ELSE current

\* lines 240-241: the description is taken only when none is set
MergeDescription(current, found) ==
    IF ~TruthyStr(current) /\ TruthyStr(found) THEN found ELSE current

\* lines 244-245: the cover is taken whenever one was found
MergeCover(current, found) == IF TruthyStr(found) THEN found ELSE current

\* Merge adding the categories found to those already there
Merge_AppendCategories(processed, google_data) ==
    [processed EXCEPT
        !.description = MergeDescription(@, google_data.description),
        !.cover_url = MergeCover(@, google_data.cover_url),
        !.google_books_id = IF TruthyStr(google_data.google_books_id)
                            THEN google_data.google_books_id ELSE @,
        !.publisher = IF TruthyStr(google_data.publisher)
                      THEN google_data.publisher ELSE @,
        !.published_date = IF TruthyStr(google_data.published_date)
                           THEN google_data.published_date ELSE @,
        !.page_count = IF TruthyInt(google_data.page_count)
                       THEN google_data.page_count ELSE @,
        !.categories = @ \o google_data.categories,
        !.language = IF TruthyStr(google_data.language)
                     THEN google_data.language ELSE @,
        !.isbn = IF TruthyStr(google_data.isbn) THEN google_data.isbn ELSE @]

\* lines 238-252: google_data laid over the record
Merge(processed, google_data) ==
    [processed EXCEPT
        !.description = MergeDescription(@, google_data.description),
        !.cover_url = MergeCover(@, google_data.cover_url),
        !.google_books_id = IF TruthyStr(google_data.google_books_id)
                            THEN google_data.google_books_id ELSE @,
        !.publisher = IF TruthyStr(google_data.publisher)
                      THEN google_data.publisher ELSE @,
        !.published_date = IF TruthyStr(google_data.published_date)
                           THEN google_data.published_date ELSE @,
        !.page_count = IF TruthyInt(google_data.page_count)
                       THEN google_data.page_count ELSE @,
        !.categories = IF TruthyList(google_data.categories)
                       THEN google_data.categories ELSE @,
        !.language = IF TruthyStr(google_data.language)
                     THEN google_data.language ELSE @,
        !.isbn = IF TruthyStr(google_data.isbn) THEN google_data.isbn ELSE @]

\* lines 198-231: the record before any lookup
Assemble(book_data) ==
    LET ts == extract_series_info(book_data.title)
        ym == parse_date(book_data.date_read)
        ln == extract_location_from_notes(book_data.notes)
    IN [author |-> book_data.author,
        title |-> ts[1],
        series_volume |-> ts[2],
        year |-> ym[1],
        month |-> ym[2],
        location |-> ln[1],
        notes |-> ln[2],
        description |-> book_data.description,
        google_books_id |-> None,
        publisher |-> None,
        published_date |-> None,
        page_count |-> NoneInt,
        categories |-> <<>>,
        language |-> None,
        isbn |-> None,
        cover_url |-> None]

\* the guard of line 234 without its test of the cover
WantsLookup_DescriptionOnly(processed, fetch) ==
    fetch /\ ~TruthyStr(processed.description)

\* the guard of line 234
WantsLookup(processed, fetch) ==
    fetch /\ (~TruthyStr(processed.description) \/ ~TruthyStr(processed.cover_url))

\* process_book(book_data, fetch_missing), the service answering net
process_book(book_data, fetch, net) ==
    LET processed == Assemble(book_data) IN
    IF WantsLookup(processed, fetch)
    THEN LET google_data == search_google_books(processed.title, processed.author, net)
         IN IF google_data.exc # "" THEN Raises(google_data.exc)
            ELSE IF google_data.value # NoneDict
                 THEN Returns(<<Merge(processed, google_data.value[1])>>)
                 ELSE Returns(<<processed>>)
    ELSE Returns(<<processed>>)

-----------------------------------------------------------------------------
(* fetch_covers.py: one iteration of enrich_books.                         *)

\* dict.update with a lookup result: every key of it is set
Update(book, fields) ==
    [book EXCEPT
        !.google_books_id = fields.google_books_id,
        !.description = fields.description,
        !.publisher = fields.publisher,
        !.published_date = fields.published_date,
        !.page_count = fields.page_count,
        !.categories = fields.categories,
        !.language = fields.language,
        !.isbn = fields.isbn,
        !.cover_url = fields.cover_url]

\* lines 102-112: the empty fields added when nothing was found
EmptyFields ==
    [google_books_id |-> None, description |-> None, publisher |-> None,
     published_date |-> None, page_count |-> NoneInt, categories |-> <<>>,
     language |-> None, isbn |-> None, cover_url |-> None]

\* the body of the loop of enrich_books for one book
enrich_book(book, net) ==
    LET google_data == search_google_books(book.title, book.author, net)
    IN IF google_data.exc # "" THEN Raises(google_data.exc)
       ELSE IF google_data.value # NoneDict
            THEN Returns(<<Update(book, google_data.value[1])>>)
            ELSE Returns(<<Update(book, EmptyFields)>>)

-----------------------------------------------------------------------------
(* The sort both main functions end with.                                  *)

\* the keys standing in for a year or a month that is not truthy
NoYearKey == 9999
NoMonthKey == 99

\* key=lambda x: (x['year'] if x['year'] else 9999, ...)
SortKey(x) == <<IF TruthyInt(x.year) THEN x.year ELSE NoYearKey,
                IF TruthyInt(x.month) THEN x.month ELSE NoMonthKey>>

\* tuple comparison  a < b
KeyLess(a, b) == a[1] < b[1] \/ (a[1] = b[1] /\ a[2] < b[2])

RECURSIVE InsertSorted(_, _)
\* x placed after every element whose key is not greater
InsertSorted(sorted, x) ==
    IF sorted = <<>> THEN <<x>>
    ELSE IF KeyLess(SortKey(x), SortKey(Head(sorted)))
         THEN <<x>> \o sorted
         ELSE <<Head(sorted)>> \o InsertSorted(Tail(sorted), x)

RECURSIVE SortBooks(_)
\* list.sort(key=...): stable, ascending
SortBooks(books) ==
    IF books = <<>> THEN <<>>
    ELSE InsertSorted(SortBooks(SubSeq(books, 1, Len(books) - 1)), books[Len(books)])

-----------------------------------------------------------------------------
(* Inputs.  A text is built from at most MaxFrags fragments of a           *)
(* vocabulary, so that word boundaries, case and repeated markers all      *)
(* occur.                                                                  *)

RECURSIVE Phrases(_, _)
Phrases(V, n) ==
    IF n = 0 THEN {<<>>}
    ELSE LET P == Phrases(V, n - 1) IN P \cup {p \o v : p \in P, v \in V}

DateVocab == {<<"A","p","r","i","l">>, <<" ">>, <<"0","6">>, <<"2","0","1","5">>, <<"0","0","0","0">>, <<"-","1","1">>, <<"-","0","0">>, <<"-","0","6">>,
              <<"J","a","n",".">>, <<"3","0">>, <<"9","9">>, <<"x">>}
DateFragments == Phrases(DateVocab, MaxFrags) \cup {None}

SeriesVocab == {<<"L","i","a","r">>, <<" ">>, <<"(","B","a","n","d"," ","3",")">>, <<"(","b","a","n","d"," ","3",")">>, <<"(","3","."," ","F","a","l","l",")">>,
                <<"(","F","a","l","l"," ","1","2",")">>, <<" ","(","7",".",")">>, <<"(","B","A","N","D"," ","1",")">>}
Titles == Phrases(SeriesVocab, MaxFrags)

NoteVocab == {<<"F","a","l","l">>, <<"B","a","n","d">>, <<" ">>, <<"S","y","d","n","e","y">>, <<"s","y","d","n","e","y">>, <<"3",".">>, <<"e","n">>,
              <<"U+00FC">>, <<"z","u","m"," ">>, <<"B","o","n","n">>, <<"-">>, <<"!">>}
NoteFragments == Phrases(NoteVocab, MaxFrags) \cup {None}

LineHeads == {<<"K","e","p","l","e","r",","," ","L","a","r","s",":"," ","D","e","r"," ","T","i","t","e","l">>, <<":"," ","D","e","r"," ","H","y","p","n","o","t","i","s","e","u","r">>,
              <<"K","e","p","l","e","r"," ","(","B","o","n","n",")",":"," ","X">>, <<"A","l","s"," ","e","r"," ","k","a","m",":"," ","d","a"," ","w","a","r">>, <<"K","e","p","l","e","r",","," ","L","a","r","s",":">>,
              <<"K","e","p","l","e","r",","," ","L","a","r","s"," ","D","e","r">>}
LineVocab == {<<" ","(","J","a","n"," ","2","0","1","5",")">>, <<" ","(","M","a","i"," ","1","6",")">>, <<" ","(","x",")">>, <<" ","(","B","a","n","d"," ","3",")">>, <<" ","T","O","P","!">>,
              <<" ","0","7">>, <<" ","(","3","0">>}
Lines == {h \o t : h \in LineHeads, t \in Phrases(LineVocab, MaxFrags)}

\* an opaque text of k characters c
Text(c, k) == [j \in 1..k |-> c]
Texts(c) == {Text(c, k) : k \in 1..MaxText}

\* preparsed entries that differ in the description they carry
DescEntries ==
    {[author |-> <<"K","e","p","l","e","r">>, title |-> <<"L","i","a","r"," ","(","B","a","n","d"," ","3",")">>, date_read |-> <<"A","p","r","i","l"," ","0","6">>,
      notes |-> <<"S","y","d","n","e","y">>, description |-> d] : d \in {None, <<>>} \cup Texts("m")}

\* preparsed entries that differ in author and title
TitleEntries ==
    {[author |-> a, title |-> t, date_read |-> None, notes |-> None,
      description |-> None] :
        a \in {<<>>, <<" ">>, <<"K","e","p","l","e","r">>},
        t \in {<<>>, <<"L","i","a","r">>, <<"(","B","a","n","d"," ","1",")">>, <<"L","i","a","r"," ","(","B","a","n","d"," ","3",")">>, <<"L","i","a","r"," ","(","b","a","n","d"," ","3",")">>}}

\* preparsed entries that differ in the date read
BatchEntries ==
    {[author |-> e[1], title |-> <<"T">>, date_read |-> e[2], notes |-> None,
      description |-> None] :
        e \in {<<<<"A">>, None>>, <<<<"B">>, <<"0","0","0","0","-","0","1","-","0","1">>>>, <<<<"C">>, <<"J","a","n"," ","2","0","1","4">>>>,
               <<<<"D">>, <<"2","0","1","4","-","0","1","-","0","5">>>>, <<<<"E">>, <<"A","p","r","i","l">>>>, <<<<"F">>, <<"2","0","1","3">>>>}}

VolumeInfos ==
    [description : {None, <<>>} \cup Texts("g"),
     publisher : {None, <<"p">>},
     publishedDate : {None, <<"2","0","0","1">>},
     pageCount : {NoneInt, 0, 300},
     categories : {<<>>, <<<<"c">>>>},
     language : {None, <<"d","e">>},
     industryIdentifiers :
        {<<>>, <<[type |-> "OTHER", identifier |-> <<"o">>]>>,
         <<[type |-> "OTHER", identifier |-> <<"o">>],
           [type |-> "ISBN_13", identifier |-> <<"9","7","8">>]>>},
     imageLinks :
        {[extraLarge |-> None, large |-> None, medium |-> None, thumbnail |-> None],
         [extraLarge |-> None, large |-> None, medium |-> None,
          thumbnail |-> <<"h","t","t","p",":","/","/","t">>],
         [extraLarge |-> None, large |-> <<"h","t","t","p","s",":","/","/","l">>, medium |-> None,
          thumbnail |-> <<"h","t","t","p",":","/","/","t">>]}]

EmptyVolumeInfo ==
    [description |-> None, publisher |-> None, publishedDate |-> None,
     pageCount |-> NoneInt, categories |-> <<>>, language |-> None,
     industryIdentifiers |-> <<>>,
     imageLinks |-> [extraLarge |-> None, large |-> None, medium |-> None,
                     thumbnail |-> None]]

NetDown == [kind |-> "RequestException"]
NetNoMatch == [kind |-> "json", items |-> <<>>]
\* an item that lacks the volumeInfo key
NetUnusable ==
    [kind |-> "json",
     items |-> <<[has_id |-> TRUE, id |-> <<"g","1">>, has_volumeInfo |-> FALSE,
                  volumeInfo |-> EmptyVolumeInfo]>>]
NetFound(vi) ==
    [kind |-> "json",
     items |-> <<[has_id |-> TRUE, id |-> <<"g","1">>, has_volumeInfo |-> TRUE,
                  volumeInfo |-> vi]>>]
\* no lookup is made
NetUnused == [kind |-> "none"]

Nets == {NetDown, NetNoMatch, NetUnusable} \cup {NetFound(vi) : vi \in VolumeInfos}

BatchNets ==
    {NetDown, NetNoMatch, NetUnusable,
     NetFound([EmptyVolumeInfo EXCEPT !.description = Text("g", 1)])}

-----------------------------------------------------------------------------
(* The functions called on their own: one call, from the idle state.       *)

Idle == [fn |-> "", arg |-> <<>>]

MainUntouched ==
    UNCHANGED <<pc, fetch_missing, raw_books, responses, processed_books, database>>

InitIdle ==
    /\ call = Idle
    /\ ret = <<>>
    /\ pc = "start"
    /\ fetch_missing = FALSE
    /\ raw_books = <<>>
    /\ responses = <<>>
    /\ processed_books = <<>>
    /\ database = <<>>

ParseDate ==
    /\ call = Idle
    /\ \E s \in DateFragments :
        /\ call' = [fn |-> "parse_date", arg |-> s]
        /\ ret' = parse_date(s)
        /\ MainUntouched

PbParseDate ==
    /\ call = Idle
    /\ \E s \in DateFragments :
        /\ call' = [fn |-> "pb_parse_date", arg |-> s]
        /\ ret' = pb_parse_date(s)
        /\ MainUntouched

ExtractSeriesInfo ==
    /\ call = Idle
    /\ \E s \in Titles :
        /\ call' = [fn |-> "extract_series_info", arg |-> s]
        /\ ret' = extract_series_info(s)
        /\ MainUntouched

PbExtractSeriesInfo ==
    /\ call = Idle
    /\ \E s \in Titles :
        /\ call' = [fn |-> "pb_extract_series_info", arg |-> s]
        /\ ret' = pb_extract_series_info(s)
        /\ MainUntouched

ExtractLocation ==
    /\ call = Idle
    /\ \E s \in NoteFragments :
        /\ call' = [fn |-> "extract_location_from_notes", arg |-> s]
        /\ ret' = extract_location_from_notes(s)
        /\ MainUntouched

ParseBookLine ==
    /\ call = Idle
    /\ \E s \in Lines :
        /\ call' = [fn |-> "parse_book_line", arg |-> s]
        /\ ret' = parse_book_line(s)
        /\ MainUntouched

\* process_book without enrichment (mode 1)
ProcessBookQuick ==
    /\ call = Idle
    /\ \E e \in TitleEntries :
        /\ call' = [fn |-> "process_book", arg |-> e, fetch |-> FALSE, net |-> NetUnused]
        /\ ret' = process_book(e, FALSE, NetUnused)
        /\ MainUntouched

\* process_book with enrichment, the service answering anything
ProcessBookEnrich ==
    /\ call = Idle
    /\ \E e \in DescEntries, f \in BOOLEAN :
        \E net \in IF f THEN Nets ELSE {NetUnused} :
            /\ call' = [fn |-> "process_book", arg |-> e, fetch |-> f, net |-> net]
            /\ ret' = process_book(e, f, net)
            /\ MainUntouched

\* the records a quick parse of the entries leaves in books_database.json
QuickDatabase == {process_book(e, FALSE, NetUnused).value[1] : e \in DescEntries}

\* fetch_covers.enrich_books on one book of the database
EnrichBook ==
    /\ call = Idle
    /\ \E book \in QuickDatabase, net \in Nets :
        /\ call' = [fn |-> "enrich_book", arg |-> book, fetch |-> TRUE, net |-> net]
        /\ ret' = enrich_book(book, net)
        /\ MainUntouched

NextDate == ParseDate \/ PbParseDate
SpecDate == InitIdle /\ [][NextDate]_vars

NextSeries == ExtractSeriesInfo \/ PbExtractSeriesInfo
SpecSeries == InitIdle /\ [][NextSeries]_vars

NextClassify == ExtractLocation
SpecClassify == InitIdle /\ [][NextClassify]_vars

NextLine == ParseBookLine \/ ProcessBookQuick
SpecLine == InitIdle /\ [][NextLine]_vars

NextEnrich == ProcessBookEnrich \/ EnrichBook
SpecEnrich == InitIdle /\ [][NextEnrich]_vars

-----------------------------------------------------------------------------
(* parse_preparsed.main.                                                   *)

\* Test mode processes the first 10 books
TestModeBooks == 10

FirstBooks(books, n) == SubSeq(books, 1, IF Len(books) < n THEN Len(books) ELSE n)

RECURSIVE Batches(_)
Batches(n) ==
    IF n = 0 THEN {<<>>}
    ELSE LET B == Batches(n - 1) IN B \cup {Append(b, e) : b \in B, e \in BatchEntries}

\* lines 285-319: the files are loaded and the mode chosen
LoadAndChoose ==
    /\ pc = "start"
    /\ \E books \in Batches(MaxBooks), choice \in {"1", "2", "3"}, confirm \in BOOLEAN :
        /\ raw_books' = IF choice = "3" THEN FirstBooks(books, TestModeBooks) ELSE books
        /\ fetch_missing' = (books # <<>> /\ (choice = "3" \/ (choice = "2" /\ confirm)))
        /\ pc' = IF books = <<>> \/ (choice = "2" /\ ~confirm) THEN "returned"
                 ELSE "loop"
    /\ UNCHANGED <<call, ret, responses, processed_books, database>>

\* lines 329-337: one iteration of the loop; an exception ends the script.
\* Line 231 leaves cover_url None, so the guard of line 234 asks
\* the service for every book exactly when fetch_missing is set.
ProcessNext ==
    /\ pc = "loop"
    /\ Len(processed_books) < Len(raw_books)
    /\ \E net \in IF fetch_missing THEN BatchNets ELSE {NetUnused} :
         /\ ret' = process_book(raw_books[Len(processed_books) + 1], fetch_missing, net)
         /\ responses' = Append(responses, net)
         /\ pc' = IF ret'.exc # "" THEN "crashed" ELSE pc
         /\ processed_books' = IF ret'.exc # "" THEN processed_books
                               ELSE Append(processed_books, ret'.value[1])
    /\ UNCHANGED <<call, fetch_missing, raw_books, database>>

\* lines 340-348: the sort, and the database written
SortAndSave ==
    /\ pc = "loop"
    /\ Len(processed_books) = Len(raw_books)
    /\ database' = SortBooks(processed_books)
    /\ pc' = "saved"
    /\ UNCHANGED <<call, ret, fetch_missing, raw_books, responses, processed_books>>

Init == InitIdle

Next == LoadAndChoose \/ ProcessNext \/ SortAndSave

Spec == Init /\ [][Next]_vars

-----------------------------------------------------------------------------
(* The claims.                                                             *)

\* the nine fields the enrichment fills
EnrichmentFields(r) ==
    <<r.description, r.publisher, r.published_date, r.page_count, r.categories,
      r.language, r.isbn, r.google_books_id, r.cover_url>>

\* what the lookup of call c returned (c made one)
LookupOf(c) == search_google_books(c.arg.title, c.arg.author, c.net)

\* call c made a lookup and it returned a result
LookupHit(c) == c.fetch /\ LookupOf(c).exc = "" /\ LookupOf(c).value # NoneDict

\* call c made a lookup and it returned None
LookupMiss(c) == c.fetch /\ LookupOf(c) = Returns(NoneDict)

\* C1: the Enrichment Merge of process_book never clears or replaces a
\* description that was already set: when the entry's description is
\* non-empty, the processed record carries that description, whatever the
\* lookup returned.
C1_DescriptionKept ==
    call.fn = "process_book" /\ TruthyStr(call.arg.description) /\ ret.exc = ""
        => ret.value[1].description = call.arg.description

\* an entry with a description was merged with a result that carries another
C1_Witness ==
    /\ call.fn = "process_book"
    /\ TruthyStr(call.arg.description)
    /\ LookupHit(call)
    /\ TruthyStr(LookupOf(call).value[1].description)
    /\ LookupOf(call).value[1].description # call.arg.description
    /\ ret.value[1].google_books_id = LookupOf(call).value[1].google_books_id
    /\ ret.value[1].description = call.arg.description

\* record after has the enrichment fields of record before; a description
\* that was empty ('' or None) may be either afterwards
FieldsKept(before, after) ==
    /\ EnrichmentFields([after EXCEPT !.description = before.description])
         = EnrichmentFields(before)
    /\ \/ after.description = before.description
       \/ ~TruthyStr(before.description) /\ ~TruthyStr(after.description)

\* C2: when search_google_books returns None, every enrichment field of the
\* record keeps its pre-merge value, in process_book and in
\* fetch_covers.enrich_books alike.
C2_FieldsKeptWithoutResult ==
    /\ call.fn = "process_book" /\ LookupMiss(call)
         => ret.exc = "" /\ FieldsKept(Assemble(call.arg), ret.value[1])
    /\ call.fn = "enrich_book" /\ LookupMiss(call)
         => ret.exc = "" /\ FieldsKept(call.arg, ret.value[1])

\* C3: the Enrichment Merge of process_book is idempotent: merging the
\* same lookup result into the merged record again changes nothing,
\* merge(merge(r, x), x) = merge(r, x).
C3_MergeIdempotent ==
    call.fn = "process_book" /\ LookupHit(call)
        => /\ ret.value[1] = Merge(Assemble(call.arg), LookupOf(call).value[1])
           /\ Merge(ret.value[1], LookupOf(call).value[1]) = ret.value[1]

\* a merge that filled the description, the categories and the page count
C3_Witness ==
    /\ call.fn = "process_book"
    /\ LookupHit(call)
    /\ ~TruthyStr(call.arg.description)
    /\ TruthyStr(ret.value[1].description)
    /\ ret.value[1].categories # <<>>
    /\ TruthyInt(ret.value[1].page_count)
    /\ ret.value[1] # Assemble(call.arg)

\* C4: extract_location_from_notes is total and mutually exclusive: for a
\* non-empty input exactly one of location and note is not None; for an
\* absent or empty input both are None.
C4_ClassifierExclusive ==
    call.fn = "extract_location_from_notes"
        => IF TruthyStr(call.arg)
           THEN (ret[1] # None) # (ret[2] # None)
           ELSE ret = <<None, None>>

\* a text that equals an allow-list entry but for its case was classified
C4_Witness ==
    /\ call.fn = "extract_location_from_notes"
    /\ TruthyStr(call.arg)
    /\ KnownLocationIndex(Strip(call.arg)) # 0
    /\ call.arg # known_locations[KnownLocationIndex(Strip(call.arg))]
    /\ ret[1] = known_locations[KnownLocationIndex(Strip(call.arg))]
    /\ ret[2] = None

\* the key the claim sorts by: None after every known value
ClaimKey(x) ==
    <<IF x.year = NoneInt THEN NoYearKey + 1 ELSE x.year,
      IF x.month = NoneInt THEN NoMonthKey + 1 ELSE x.month>>

SameDate(x, y) == x.year = y.year /\ x.month = y.month

\* C5: the database is the processed records stably sorted ascending by
\* (year, month), None after all known values: a record with a known year
\* never follows one with no year, a smaller (year, month) never follows a
\* larger one, and records with equal keys keep their input order.
C5_SortedOutput ==
    pc = "saved" =>
        /\ \A i, j \in 1..Len(database) :
            i < j => /\ ~(database[i].year = NoneInt /\ database[j].year # NoneInt)
                     /\ ~KeyLess(ClaimKey(database[j]), ClaimKey(database[i]))
        /\ \A i \in 1..Len(database) :
            LET Same(x) == SameDate(x, database[i])
            IN SelectSeq(database, Same) = SelectSeq(processed_books, Same)

\* the lookup answered, and not with a result
LookupFailed(net) ==
    \/ net.kind = "RequestException"
    \/ net.kind = "json" /\ net.items = <<>>
    \/ net.kind = "json" /\ net.items # <<>> /\ ~net.items[1].has_volumeInfo

\* C6: with enrichment enabled a lookup failure (no match, transport
\* failure, unusable response) never aborts the batch: the entry still
\* produces its record, the one it has when the lookup returns no result.
C6_LookupFailureNeverAborts ==
    \A k \in 1..Len(responses) :
        LookupFailed(responses[k])
            => /\ pc # "crashed"
               /\ Len(processed_books) >= k
               /\ processed_books[k] = Assemble(raw_books[k])

\* C7: parse_date of the preparsed path returns (None, None) whenever the
\* fragment holds no year token, even if it names a month: no result has a
\* month without a year.
C7_NoMonthWithoutYear ==
    call.fn = "parse_date" /\ ret[1] = NoneInt => ret[2] = NoneInt

\* C8: every record either adapter emits has a non-empty author after
\* trimming and a non-empty title; an input that would yield an empty
\* author or title produces no record.
C8_AuthorAndTitlePresent ==
    /\ call.fn = "parse_book_line" /\ ret # NoneDict
         => Strip(ret[1].author) # <<>> /\ ret[1].title # <<>>
    /\ call.fn = "process_book" /\ ret.exc = ""
         => Strip(ret.value[1].author) # <<>> /\ ret.value[1].title # <<>>

RECURSIVE MarkerText(_, _, _)
\* the text the first matching series pattern matched in title
MarkerText(title, n, last) ==
    LET m == ReSearch(<<SeriesPattern(n, TRUE)>>, title)
    IN IF m.ok THEN Group(m, title, 0, Len(m.ends))
       ELSE IF n < last THEN MarkerText(title, n + 1, last)
       ELSE <<>>

\* C9: whenever the Series Extractor returns a volume, the returned title
\* no longer contains the marker text that supplied it (markers are matched
\* ignoring case).
C9_MarkerRemoved ==
    /\ call.fn = "extract_series_info" /\ ret[2] # NoneInt
         => ~Contains(ret[1], MarkerText(call.arg, 1, 3))
    /\ call.fn = "pb_extract_series_info" /\ ret[2] # NoneInt
         => ~Contains(ret[1], MarkerText(call.arg, 1, 4))

\* the text after the first colon of a line
LineRest(line0) ==
    LET line == Strip(line0)
    IN Strip(SubSeq(line, FirstColon(line) + 1, Len(line)))

\* the parentheticals of a line that parse as a date, by position
DatedParens(line) ==
    LET P == FindAllParens(LineRest(line), 1)
    IN {k \in 1..Len(P) : pb_parse_date(P[k]) # NoneDict}

\* C10: in parse_book_line year and month come from one fragment: the
\* first parenthetical, left to right, that parses as a date supplies both;
\* the note is parsed for a date only if no parenthetical yields one.
C10_FirstDateWins ==
    call.fn = "parse_book_line" /\ ret # NoneDict =>
        LET P == FindAllParens(LineRest(call.arg), 1)
            hits == DatedParens(call.arg)
            source == IF hits # {}
                      THEN pb_parse_date(P[CHOOSE k \in hits : \A j \in hits : k <= j])
                      ELSE IF TruthyStr(ret[1].notes) THEN pb_parse_date(ret[1].notes)
                      ELSE NoneDict
        IN IF source = NoneDict
           THEN ret[1].year = NoneInt /\ ret[1].month = NoneInt
           ELSE ret[1].year = source[1].year /\ ret[1].month = source[1].month

\* a line with two parentheticals that parse to different dates, and a note
\* that parses to a third
C10_Witness ==
    /\ call.fn = "parse_book_line"
    /\ ret # NoneDict
    /\ LET P == FindAllParens(LineRest(call.arg), 1)
       IN /\ Cardinality(DatedParens(call.arg)) >= 2
          /\ \E j, k \in DatedParens(call.arg) :
                j < k /\ pb_parse_date(P[j]) # pb_parse_date(P[k])
                      /\ \A i \in DatedParens(call.arg) : j <= i
                      /\ ret[1].year = pb_parse_date(P[j])[1].year

\* date_lower of parse_date (line 44)
DateLower(date_str) == RStripSet(Strip(ToLower(date_str)), {"."})

\* the fragment goes through the year search of line 52, not the ISO branch
YearSearched(date_str) ==
    TruthyStr(date_str) /\ ~ReMatch(IsoPattern, DateLower(date_str)).ok

\* the token the year search of parse_date finds in the fragment, <<>> if none
YearToken(date_str) ==
    LET m == ReSearch(YearPattern, DateLower(date_str))
    IN IF m.ok THEN YearGroup(m, DateLower(date_str)) ELSE <<>>

\* C11: in parse_date of the preparsed path a year token is a 4-digit token
\* in 2000..2099, or a 2-digit token in 00..25 (year 2000+N) or in 50..99
\* (year 1900+N); a 2-digit token in 26..49 is not a year token and yields
\* no year.
C11_YearTokenRanges ==
    call.fn = "parse_date" /\ YearSearched(call.arg) =>
        LET token == YearToken(call.arg)
            N == ToInt(token)
        IN /\ Len(token) = 4 => N \in 2000..2099 /\ ret[1] = N
           /\ Len(token) = 2 /\ N \in 0..25 => ret[1] = 2000 + N
           /\ Len(token) = 2 /\ N \in 50..99 => ret[1] = 1900 + N
           /\ Len(token) = 2 /\ N \in 26..49 => ret[1] = NoneInt
           /\ token = <<>> => ret[1] = NoneInt

\* C12: the month parse_date returns is None or an integer in 1..12, for
\* every fragment, the fragments of the ISO YYYY-MM-DD branch included, and
\* so is the month of the Date Normalizer of parse_books.
C12_MonthInRange ==
    /\ call.fn = "parse_date" => ret[2] = NoneInt \/ ret[2] \in 1..12
    /\ call.fn = "pb_parse_date" /\ ret # NoneDict
         => ret[1].month = NoneInt \/ ret[1].month \in 1..12

\* text holds word (given in lower case) as a whole word, in any case
HasWholeWord(text, word) ==
    \E p \in 1..(Len(text) - Len(word) + 1) :
        /\ ToLower(SubSeq(text, p, p + Len(word) - 1)) = word
        /\ IsBoundary(text, p)
        /\ IsBoundary(text, p + Len(word))

\* the steps of the cascade, each taken alone, on the stripped fragment
NamesFallOrBand(notes) == HasWholeWord(notes, <<"f","a","l","l">>) \/ HasWholeWord(notes, <<"b","a","n","d">>)
OnAllowList(notes) == \E k \in 1..Len(known_locations) : ToLower(notes) = ToLower(known_locations[k])
HasNotePhrase(notes) == ReSearch(NotePhrasePattern, notes).ok
LooksLikePlace(notes) ==
    ReMatch(LocationShapePattern, notes).ok /\ SplitCount(notes, FALSE) <= 4

\* C13: the classifier applies its steps in order and the first that fires
\* decides: a fragment with the whole word Fall or Band, in any case, is a
\* note even when it is letters only; else a fragment equal to an allow-list
\* entry but for case is that location, whatever the note-phrase test says;
\* else a fragment with a note phrase is a note; the letters-only heuristic
\* decides only when none of these fired.
C13_CascadeOrder ==
    call.fn = "extract_location_from_notes" /\ TruthyStr(call.arg) =>
        LET notes == Strip(call.arg)
        IN IF NamesFallOrBand(notes) THEN ret = <<None, notes>>
           ELSE IF OnAllowList(notes)
                THEN /\ ret[2] = None
                     /\ \E k \in 1..Len(known_locations) :
                           /\ ret[1] = known_locations[k]
                           /\ ToLower(notes) = ToLower(known_locations[k])
           ELSE IF HasNotePhrase(notes) THEN ret = <<None, notes>>
           ELSE IF LooksLikePlace(notes) THEN ret = <<notes, None>>
           ELSE ret = <<None, notes>>

\* a letters-only fragment of at most 4 words, not on the allow-list and
\* with no note phrase, that names Band and was classified as a note
C13_Witness ==
    /\ call.fn = "extract_location_from_notes"
    /\ TruthyStr(call.arg)
    /\ HasWholeWord(Strip(call.arg), <<"b","a","n","d">>)
    /\ LooksLikePlace(Strip(call.arg))
    /\ ~HasNotePhrase(Strip(call.arg))
    /\ Len(Strip(call.arg)) > 4
    /\ ret = <<None, Strip(call.arg)>>

\* the volume the Series Extractor of parse_books finds in the text after the
\* colon as the line has it, before the parentheticals are removed
MarkerInLine(line) == pb_extract_series_info(LineRest(line))[2]

\* C14: parse_book_line never returns a record with a series_volume: every
\* parenthetical is removed from the text after the colon before the Series
\* Extractor runs on the title, and every volume pattern needs a
\* parenthesised marker.
C14_NoSeriesVolumeFromLine ==
    call.fn = "parse_book_line" /\ ret # NoneDict => ret[1].series_volume = NoneInt

\* a line whose text after the colon holds a volume marker gave a record,
\* its title without the marker
C14_Witness ==
    /\ call.fn = "parse_book_line"
    /\ ret # NoneDict
    /\ MarkerInLine(call.arg) = 3
    /\ ret[1].series_volume = NoneInt
    /\ ~Contains(ret[1].title, <<"(","B","a","n","d"," ","3",")">>)

\* the enrichment fields of r other than the description are all empty
NothingFetched(r) ==
    /\ r.publisher = None /\ r.published_date = None /\ r.page_count = NoneInt
    /\ r.categories = <<>> /\ r.language = None /\ r.isbn = None
    /\ r.google_books_id = None /\ r.cover_url = None

\* C15: process_book makes its one lookup if and only if fetch_missing is
\* set, whether or not the entry carries a description: cover_url is None
\* when the guard is tested, so the guard is the flag.  With the flag set
\* the outcome is the lookup's (its exception, the merge of its result, or
\* the record as it was on None); with the flag clear no lookup is made,
\* the description is carried through and the other enrichment fields stay
\* empty.
C15_LookupIffFetchMissing ==
    call.fn = "process_book" =>
        LET processed == Assemble(call.arg) IN
        /\ processed.cover_url = None
        /\ WantsLookup(processed, call.fetch) = call.fetch
        /\ call.fetch =>
             IF LookupOf(call).exc # "" THEN ret = Raises(LookupOf(call).exc)
             ELSE IF LookupOf(call).value # NoneDict
                  THEN ret = Returns(<<Merge(processed, LookupOf(call).value[1])>>)
                  ELSE ret = Returns(<<processed>>)
        /\ ~call.fetch =>
             /\ call.net = NetUnused
             /\ ret = Returns(<<processed>>)
             /\ ret.value[1].description = call.arg.description
             /\ NothingFetched(ret.value[1])

\* an entry that carries a description was processed with the flag set, and
\* the record shows what the lookup found: its id, publisher and cover
C15_Witness ==
    /\ call.fn = "process_book"
    /\ call.fetch
    /\ TruthyStr(call.arg.description)
    /\ LookupHit(call)
    /\ TruthyStr(LookupOf(call).value[1].publisher)
    /\ TruthyStr(LookupOf(call).value[1].cover_url)
    /\ ret.value[1].google_books_id = LookupOf(call).value[1].google_books_id
    /\ ret.value[1].publisher = LookupOf(call).value[1].publisher
    /\ ret.value[1].cover_url = LookupOf(call).value[1].cover_url
    /\ ~NothingFetched(ret.value[1])

====
